---- MODULE Spec2Model ----
(***************************************************************************)
(* State-machine model of src/main.py: the CryptoRadar polling service.    *)
(*                                                                         *)
(* A background scheduler fires CryptoRadar.scan on a pool thread.  A scan *)
(* refreshes the cached OAuth token when it is missing or expired, posts   *)
(* one GraphQL query to the analytics endpoint, parses two aggregates and  *)
(* sends one Telegram message when a threshold is exceeded.  A Flask app   *)
(* serves one route, '/'.                                                  *)
(*                                                                         *)
(* Time is the wall clock read by datetime.now(), in whole minutes.        *)
(* Amounts (BTC) are integers in units of 1/10000, so 2.0 is 20000 and     *)
(* 2.0001 is 20001.                                                        *)
(***************************************************************************)
EXTENDS Integers, Sequences, FiniteSets, TLC

\* ------------------------------------------------------------------ bounds
\* The clock is advanced at most MaxAdvances times in a behaviour.
MaxAdvances == 3

\* --------------------------------------------------------------- constants
INTERVAL_MINUTES == 10
\* As TOKEN_TTL_MINUTES, with the provider's full 24 hours.
TOKEN_TTL_FullDay == 24 * 60
TOKEN_TTL_MINUTES == 23 * 60
INFLOW_THRESHOLD == 20000
OLD_VOL_THRESHOLD == 1000000
HIGH_RISK_THRESHOLD == 50000
WHALE_THRESHOLD == 5000000

\* Python's None for self.token.
None == "None"
\* A JSON null where a number is expected.
JsonNull == 0 - 2
\* A local variable that has not been assigned in this cycle.
Unset == 0 - 1
\* No message: nothing has been handed to bot.send_message.
NoMsg == << >>

\* Pool threads on which the scheduler runs the job.
Threads == {"t1", "t2"}

\* Steps by which the wall clock may move between two observations.
Deltas == {INTERVAL_MINUTES, TOKEN_TTL_MINUTES - INTERVAL_MINUTES}

\* access_token values the token endpoint may return.
TokenValues == {"abc", ""}

\* Replies of the token endpoint.  status 0: requests.post raised (no reply).
AuthReplies ==
    {[status |-> 0, json |-> FALSE, has_token |-> FALSE, access_token |-> ""]}
    \cup {[status |-> s, json |-> TRUE, has_token |-> FALSE, access_token |-> ""] : s \in {401, 500}}
    \cup {[status |-> 200, json |-> FALSE, has_token |-> FALSE, access_token |-> ""]}
    \cup {[status |-> 200, json |-> TRUE, has_token |-> FALSE, access_token |-> ""]}
    \cup {[status |-> 200, json |-> TRUE, has_token |-> TRUE, access_token |-> v] : v \in TokenValues}

\* No reply has been received in this cycle.
NoReply == [status |-> Unset, json |-> FALSE, has_token |-> FALSE, access_token |-> ""]

\* Values of inflow[0].average and old_coins[0].volume.
InflowVals == {20000, 20001, 35000, 50000, 50001, JsonNull}
VolVals == {0, 1000000, 1000001, 5000000, 5000001}

InflowArrays ==
    {<< >>} \cup {<<v>> : v \in InflowVals} \cup {<<20000, 50001>>}
OldCoinArrays ==
    {<< >>} \cup {<<v>> : v \in VolVals}

\* Replies of the analytics endpoint.  status 0: requests.post raised.
\* json: the body parses; errors: it has an 'errors' key; shape: it has
\* data.bitcoin with both arrays.
AnalyticsReplies ==
    {[status |-> 0, json |-> FALSE, errors |-> FALSE, shape |-> FALSE, inflow |-> << >>, old_coins |-> << >>]}
    \cup {[status |-> s, json |-> TRUE, errors |-> FALSE, shape |-> TRUE, inflow |-> <<35000>>, old_coins |-> << >>]
            : s \in {201, 500}}
    \cup {[status |-> 200, json |-> FALSE, errors |-> FALSE, shape |-> FALSE, inflow |-> << >>, old_coins |-> << >>]}
    \cup {[status |-> 200, json |-> TRUE, errors |-> TRUE, shape |-> e, inflow |-> i, old_coins |-> << >>]
            : e \in BOOLEAN, i \in {<<35000>>}}
    \cup {[status |-> 200, json |-> TRUE, errors |-> FALSE, shape |-> FALSE, inflow |-> << >>, old_coins |-> << >>]}
    \cup {[status |-> 200, json |-> TRUE, errors |-> FALSE, shape |-> TRUE, inflow |-> i, old_coins |-> o]
            : i \in InflowArrays, o \in OldCoinArrays}

NoAnalyticsReply ==
    [status |-> Unset, json |-> FALSE, errors |-> FALSE, shape |-> FALSE, inflow |-> << >>, old_coins |-> << >>]

\* No query has been built in this cycle.
NoQuery == << >>

\* Sub-second parts (microseconds) the clock may show when it is read.
Micros == {0, 999999}

\* Paths requested from the web server.
Paths == {"/", "/test"}

VARIABLES
    now,            \* wall clock, minutes since process start
    advances,       \* how often the clock has been advanced
    token,          \* CryptoRadar.token
    token_expiry,   \* CryptoRadar.token_expiry
    pc,             \* per thread: position inside scan()
    authCalls,      \* per thread: token-exchange requests issued in this cycle
    authReply,      \* per thread: the token endpoint's reply in this cycle
    issuedAt,       \* time of the latest exchange if it stored a usable token, else Unset
    bearer,         \* per thread: token put into the Authorization header
    queryTime,      \* per thread: time_window of the query built in this cycle
    query,          \* per thread: the query string built in this cycle
    analyticsCalls, \* per thread: analytics requests issued in this cycle
    resp,           \* per thread: the analytics endpoint's reply in this cycle
    avg_inflow,     \* per thread: local avg_inflow of scan()
    old_vol,        \* per thread: local old_vol of scan()
    sendAttempts,   \* per thread: bot.send_message calls made in this cycle
    inflight,       \* per thread: message handed to bot.send_message, not yet finished
    sendResult,     \* per thread: "none", "sent" or "failed"
    escaped,        \* per thread: an exception left scan()
    log,            \* per thread: last warning/error line logged in this cycle
    http,           \* last exchange on the web surface
    nextRun,        \* the job's next_run_time
    firstRun,       \* time at which the job was first run, Unset before
    prevAlert       \* the cycle before the latest start attempted an alert send

vars == <<now, advances, token, token_expiry, pc, authCalls, authReply, issuedAt,
          bearer, queryTime, query, analyticsCalls, resp, avg_inflow, old_vol,
          sendAttempts, inflight, sendResult, escaped, log, http,
          nextRun, firstRun, prevAlert>>

cacheVars == <<token, token_expiry, issuedAt>>
authVars == <<authCalls, authReply>>
queryVars == <<bearer, queryTime, query, analyticsCalls, resp, avg_inflow, old_vol>>
alertVars == <<sendAttempts, inflight, sendResult>>
clockVars == <<now, advances>>
schedVars == <<nextRun, firstRun, prevAlert>>

\* ------------------------------------------------------------ construction
NoHttp == [path |-> "", status |-> Unset, body |-> "", sends |-> 0]

\* The first fire time of an interval job added at time start without a
\* next_run_time: one interval after start.
FirstFireTime(start) == start + INTERVAL_MINUTES

\* The fire time that follows a run at time t.
NextFireTime(t) == t + INTERVAL_MINUTES

Init ==
    /\ now = 0
    /\ advances = 0
    /\ token = None
    /\ token_expiry = 0
    /\ pc = [w \in Threads |-> "Idle"]
    /\ authCalls = [w \in Threads |-> 0]
    /\ authReply = [w \in Threads |-> NoReply]
    /\ issuedAt = Unset
    /\ bearer = [w \in Threads |-> None]
    /\ queryTime = [w \in Threads |-> Unset]
    /\ query = [w \in Threads |-> NoQuery]
    /\ analyticsCalls = [w \in Threads |-> 0]
    /\ resp = [w \in Threads |-> NoAnalyticsReply]
    /\ avg_inflow = [w \in Threads |-> Unset]
    /\ old_vol = [w \in Threads |-> Unset]
    /\ sendAttempts = [w \in Threads |-> 0]
    /\ inflight = [w \in Threads |-> NoMsg]
    /\ sendResult = [w \in Threads |-> "none"]
    /\ escaped = [w \in Threads |-> FALSE]
    /\ log = [w \in Threads |-> ""]
    /\ http = NoHttp
    /\ nextRun = FirstFireTime(0)
    /\ firstRun = Unset
    /\ prevAlert = FALSE

\* ------------------------------------------------------------- token cache
\* As Truthy, with only None counted as false ('is not None').
Truthy_NotNone(tok) == tok # None

\* As Truthy, with the 'if not self.token' test always passing.
Truthy_Always(tok) == TRUE

\* Python truthiness of self.token: None and '' are false.
Truthy(tok) == tok # None /\ tok # ""

\* As TokenValid, with the expiry as the only test.
TokenValid_ExpiryOnly(tok, exp, t) == t < exp

\* As TokenValid, with the expiry comparison left out.
TokenValid_IgnoresExpiry(tok, exp, t) == Truthy(tok)

\* _refresh_token's early return: the cached token is still valid at time t.
TokenValid(tok, exp, t) == Truthy(tok) /\ t < exp

\* The exception the token exchange raises for a reply, "" if none:
\* requests.post raises, raise_for_status raises on 4xx/5xx, response.json
\* raises on a body that is not JSON.
AuthException(reply) ==
    IF reply.status = 0 THEN "ConnectionError"
    ELSE IF reply.status >= 400 THEN "HTTPError"
    ELSE IF ~reply.json THEN "JSONDecodeError"
    ELSE ""

\* 'except Exception' in _refresh_token.
CaughtByRefresh(exc) ==
    exc \in {"ConnectionError", "HTTPError", "JSONDecodeError"}

\* data.get('access_token'): None when the field is missing.
GetAccessToken(reply) ==
    IF reply.has_token THEN reply.access_token ELSE None

\* As ExchangedToken, with a failed exchange leaving self.token as it was.
ExchangedToken_KeepsOld(reply, tok) ==
    IF AuthException(reply) = "" THEN GetAccessToken(reply) ELSE tok

\* self.token after the exchange.
ExchangedToken(reply, tok) ==
    IF AuthException(reply) = "" THEN GetAccessToken(reply)
    ELSE IF CaughtByRefresh(AuthException(reply)) THEN None
    ELSE tok

\* self.token_expiry after the exchange finished at time t.
ExchangedExpiry(reply, exp, t) ==
    IF AuthException(reply) = "" THEN t + TOKEN_TTL_MINUTES ELSE exp

\* ------------------------------------------------------------------- query
\* As TimeWindow, with the interval not subtracted.
TimeWindow_Now(t) == t

\* time_window of _get_dynamic_query at time t.
TimeWindow(t) == t - INTERVAL_MINUTES

\* strftime('%Y-%m-%dT%H:%M:%SZ') of the instant t minutes plus us
\* microseconds after process start, as <<day, hour, minute, second>>; the
\* format has no field for the microseconds.
FormatTime(t, us) ==
    <<t \div 1440, (t % 1440) \div 60, t % 60, us \div 1000000>>

\* The query _get_dynamic_query returns when the clock shows t minutes and
\* us microseconds: fixed text around two copies of one time_str.
DynamicQuery(t, us) ==
    LET time_str == FormatTime(TimeWindow(t), us)
    IN  <<"{ bitcoin { inflow: transactions(... date: {after: ",
          time_str,
          "} ...) { average count } old_coins: inputs(age: {gt: 1095}, date: {after: ",
          time_str,
          "}) { volume } } }">>

\* -------------------------------------------------------------- evaluation
\* As ApiError, with the status check left out.
ApiError_Never(r) == FALSE

\* res.status_code != 200
ApiError(r) == r.status # 200

\* 'errors' in json_data
GraphQLError(r) == r.errors

\* data['inflow'][0]['average'] if data['inflow'] else 0.0
ParseInflow(r) == IF r.inflow # << >> THEN r.inflow[1] ELSE 0

\* As ParseOldVol, with None as the default for an empty array.
ParseOldVol_DefaultNull(r) ==
    IF r.old_coins # << >> THEN r.old_coins[1] ELSE JsonNull

\* data['old_coins'][0]['volume'] if data['old_coins'] else 0.0
ParseOldVol(r) == IF r.old_coins # << >> THEN r.old_coins[1] ELSE 0

\* As ShouldAlert, requiring both signals.
ShouldAlert_Both(inflow, vol) ==
    inflow > INFLOW_THRESHOLD /\ vol > OLD_VOL_THRESHOLD

\* if avg_inflow > 2.0 or old_vol > 100
ShouldAlert(inflow, vol) ==
    inflow > INFLOW_THRESHOLD \/ vol > OLD_VOL_THRESHOLD

\* The exception raised inside scan's try block for a reply, "" if none.
ScanException(r) ==
    IF r.status = 0 THEN "ConnectionError"
    ELSE IF ApiError(r) THEN ""
    ELSE IF ~r.json THEN "JSONDecodeError"
    ELSE IF GraphQLError(r) THEN ""
    ELSE IF ~r.shape THEN "KeyError"
    ELSE IF ParseInflow(r) = JsonNull \/ ParseOldVol(r) = JsonNull THEN "TypeError"
    ELSE ""

\* As CaughtByScan, catching transport errors only.
CaughtByScan_TransportOnly(exc) == exc \in {"ConnectionError"}

\* 'except Exception' at the end of scan.
CaughtByScan(exc) ==
    exc \in {"ConnectionError", "JSONDecodeError", "KeyError", "TypeError",
             "NetworkError", "BadRequest", "Unauthorized"}

\* ---------------------------------------------------------------- notifier
\* Errors bot.send_message may raise.
SendErrors == {"NetworkError", "BadRequest", "Unauthorized"}

\* As CaughtByNotifier, without the try block around the send.
CaughtByNotifier_Nothing(exc) == FALSE

\* 'except Exception' in _send_alert.
CaughtByNotifier(exc) == exc \in SendErrors

\* As BuildMessage, with the whale marker from 500 BTC on.
BuildMessage_WhaleInclusive(inflow, vol) ==
    <<"RADAR DETECTED MOVEMENT", "Exchange Inflow (Avg)">>
    \o (IF vol >= WHALE_THRESHOLD THEN <<"WHALE ALERT">>
        ELSE IF vol > 0 THEN <<"Old Coins">>
        ELSE << >>)
    \o (IF inflow > HIGH_RISK_THRESHOLD THEN <<"HIGH DUMP RISK">> ELSE << >>)

\* The lines of the message _send_alert builds, as tags.
BuildMessage(inflow, vol) ==
    <<"RADAR DETECTED MOVEMENT", "Exchange Inflow (Avg)">>
    \o (IF vol > WHALE_THRESHOLD THEN <<"WHALE ALERT">>
        ELSE IF vol > 0 THEN <<"Old Coins">>
        ELSE << >>)
    \o (IF inflow > HIGH_RISK_THRESHOLD THEN <<"HIGH DUMP RISK">> ELSE << >>)

\* As AfterDispatch, with the coroutine scheduled and not awaited.
AfterDispatch_NotAwaited == "Idle"

\* Where scan() is after handing the message to asyncio.run: it blocks
\* until the coroutine has finished.
AfterDispatch == "alerting"

\* --------------------------------------------------------------------- web
\* As RouteTable, with '/test' registered for the same handler.
RouteTable_WithTest == [p \in {"/", "/test"} |-> "health"]

\* The routes registered with @app.route.
RouteTable == [p \in {"/"} |-> "health"]

\* The body health() returns.
HealthBody == "Radar 10000/10 is Active and Scanning..."

\* ----------------------------------------------------------------- actions
\* Cycle-local records are kept after a cycle ends and cleared when the
\* next cycle starts.
Fresh(f, w, mine, blank) ==
    [v \in Threads |-> IF v = w THEN mine
                       ELSE IF pc[v] = "Idle" THEN blank ELSE f[v]]

\* The job is due and the scheduler runs scan() on thread w; scan() calls
\* _refresh_token, which returns at once on a valid token and otherwise
\* posts the token exchange.
StartScan(w) ==
    /\ pc[w] = "Idle"
    /\ now >= nextRun
    /\ nextRun' = NextFireTime(now)
    /\ firstRun' = IF firstRun = Unset THEN now ELSE firstRun
    /\ prevAlert' = (\E v \in Threads : sendAttempts[v] > 0)
    /\ IF TokenValid(token, token_expiry, now)
       THEN /\ pc' = [pc EXCEPT ![w] = "check_token"]
            /\ authCalls' = Fresh(authCalls, w, 0, 0)
       ELSE /\ pc' = [pc EXCEPT ![w] = "auth_wait"]
            /\ authCalls' = Fresh(authCalls, w, 1, 0)
    /\ authReply' = Fresh(authReply, w, NoReply, NoReply)
    /\ bearer' = Fresh(bearer, w, None, None)
    /\ queryTime' = Fresh(queryTime, w, Unset, Unset)
    /\ query' = Fresh(query, w, NoQuery, NoQuery)
    /\ analyticsCalls' = Fresh(analyticsCalls, w, 0, 0)
    /\ resp' = Fresh(resp, w, NoAnalyticsReply, NoAnalyticsReply)
    /\ avg_inflow' = Fresh(avg_inflow, w, Unset, Unset)
    /\ old_vol' = Fresh(old_vol, w, Unset, Unset)
    /\ sendAttempts' = Fresh(sendAttempts, w, 0, 0)
    /\ inflight' = Fresh(inflight, w, NoMsg, NoMsg)
    /\ sendResult' = Fresh(sendResult, w, "none", "none")
    /\ escaped' = Fresh(escaped, w, FALSE, FALSE)
    /\ log' = Fresh(log, w, "", "")
    /\ UNCHANGED <<clockVars, cacheVars, http>>

\* Serial cycles: a run starts only when no other run is in progress (the
\* interval is long against a cycle, and the job keeps the scheduler's
\* default of one running instance).
Tick(w) ==
    /\ \A v \in Threads : pc[v] = "Idle"
    /\ StartScan(w)

\* The token exchange returns or raises; _refresh_token stores the result.
AuthResponse(w, reply) ==
    /\ pc[w] = "auth_wait"
    /\ authReply' = [authReply EXCEPT ![w] = reply]
    /\ token' = ExchangedToken(reply, token)
    /\ token_expiry' = ExchangedExpiry(reply, token_expiry, now)
    /\ issuedAt' = IF Truthy(token') /\ AuthException(reply) = "" THEN now ELSE Unset
    /\ IF AuthException(reply) = ""
       THEN /\ pc' = [pc EXCEPT ![w] = "check_token"]
            /\ UNCHANGED <<log, escaped>>
       ELSE IF CaughtByRefresh(AuthException(reply))
       THEN /\ pc' = [pc EXCEPT ![w] = "check_token"]
            /\ log' = [log EXCEPT ![w] = "Auth Critical Failure"]
            /\ UNCHANGED escaped
       ELSE /\ pc' = [pc EXCEPT ![w] = "Idle"]
            /\ escaped' = [escaped EXCEPT ![w] = TRUE]
            /\ UNCHANGED log
    /\ UNCHANGED <<clockVars, authCalls, queryVars, alertVars, http, schedVars>>

\* if not self.token: return
CheckToken(w) ==
    /\ pc[w] = "check_token"
    /\ IF Truthy(token)
       THEN /\ pc' = [pc EXCEPT ![w] = "build_request"]
            /\ UNCHANGED log
       ELSE /\ pc' = [pc EXCEPT ![w] = "Idle"]
            /\ log' = [log EXCEPT ![w] = "Skipping scan due to missing token."]
    /\ UNCHANGED <<clockVars, cacheVars, authVars, queryVars, alertVars, escaped, http, schedVars>>

\* Build the query and the headers, post the analytics request.
BuildRequest(w, us) ==
    /\ pc[w] = "build_request"
    /\ queryTime' = [queryTime EXCEPT ![w] = TimeWindow(now)]
    /\ query' = [query EXCEPT ![w] = DynamicQuery(now, us)]
    /\ bearer' = [bearer EXCEPT ![w] = token]
    /\ analyticsCalls' = [analyticsCalls EXCEPT ![w] = @ + 1]
    /\ pc' = [pc EXCEPT ![w] = "query_wait"]
    /\ UNCHANGED <<clockVars, cacheVars, authVars, resp, avg_inflow, old_vol,
                   alertVars, escaped, log, http, schedVars>>

\* The analytics request returns or raises; scan() checks the reply, parses
\* the aggregates and, over a threshold, builds the message and starts the
\* send.
AnalyticsResponse(w, r) ==
    /\ pc[w] = "query_wait"
    /\ resp' = [resp EXCEPT ![w] = r]
    /\ LET parsed == r.status # 0 /\ ~ApiError(r) /\ r.json /\ ~GraphQLError(r) /\ r.shape
           exc == ScanException(r)
           i == ParseInflow(r)
           v == ParseOldVol(r)
       IN  /\ avg_inflow' = [avg_inflow EXCEPT ![w] = IF parsed THEN i ELSE Unset]
           /\ old_vol' = [old_vol EXCEPT ![w] = IF parsed THEN v ELSE Unset]
           /\ IF exc # ""
              THEN /\ pc' = [pc EXCEPT ![w] = "Idle"]
                   /\ IF CaughtByScan(exc)
                      THEN /\ log' = [log EXCEPT ![w] = "Scan Runtime Error"]
                           /\ UNCHANGED escaped
                      ELSE /\ escaped' = [escaped EXCEPT ![w] = TRUE]
                           /\ UNCHANGED log
                   /\ UNCHANGED alertVars
              ELSE IF ApiError(r)
              THEN /\ pc' = [pc EXCEPT ![w] = "Idle"]
                   /\ log' = [log EXCEPT ![w] = "Bitquery API Error"]
                   /\ UNCHANGED <<alertVars, escaped>>
              ELSE IF GraphQLError(r)
              THEN /\ pc' = [pc EXCEPT ![w] = "Idle"]
                   /\ log' = [log EXCEPT ![w] = "GraphQL Error"]
                   /\ UNCHANGED <<alertVars, escaped>>
              ELSE IF ShouldAlert(i, v)
              THEN /\ pc' = [pc EXCEPT ![w] = AfterDispatch]
                   /\ inflight' = [inflight EXCEPT ![w] = BuildMessage(i, v)]
                   /\ sendAttempts' = [sendAttempts EXCEPT ![w] = @ + 1]
                   /\ UNCHANGED <<sendResult, escaped, log>>
              ELSE /\ pc' = [pc EXCEPT ![w] = "Idle"]
                   /\ UNCHANGED <<alertVars, escaped, log>>
    /\ UNCHANGED <<clockVars, cacheVars, authVars, bearer, queryTime, query, analyticsCalls,
                   http, schedVars>>

\* bot.send_message finishes ("ok") or raises; _send_alert logs either way
\* and asyncio.run returns to scan(), which ends.
SendDone(w, result) ==
    /\ pc[w] = "alerting"
    /\ inflight' = [inflight EXCEPT ![w] = NoMsg]
    /\ pc' = [pc EXCEPT ![w] = "Idle"]
    /\ IF result = "ok"
       THEN /\ sendResult' = [sendResult EXCEPT ![w] = "sent"]
            /\ UNCHANGED <<log, escaped>>
       ELSE /\ sendResult' = [sendResult EXCEPT ![w] = "failed"]
            /\ IF CaughtByNotifier(result)
               THEN /\ log' = [log EXCEPT ![w] = "Telegram Error"]
                    /\ UNCHANGED escaped
               ELSE IF CaughtByScan(result)
               THEN /\ log' = [log EXCEPT ![w] = "Scan Runtime Error"]
                    /\ UNCHANGED escaped
               ELSE /\ escaped' = [escaped EXCEPT ![w] = TRUE]
                    /\ UNCHANGED log
    /\ UNCHANGED <<clockVars, cacheVars, authVars, queryVars, sendAttempts, http, schedVars>>

\* The wall clock moves on.
Advance(d) ==
    /\ advances < MaxAdvances
    /\ now' = now + d
    /\ advances' = advances + 1
    /\ UNCHANGED <<cacheVars, pc, authVars, queryVars, alertVars, escaped, log, http, schedVars>>

\* As HttpGet, with a handler that also resets the cached token.
HttpGet_ResetsToken(path) ==
    /\ http' = [path |-> path, status |-> 200, body |-> HealthBody, sends |-> 0]
    /\ token' = None
    /\ UNCHANGED <<clockVars, token_expiry, issuedAt, pc, authVars, queryVars,
                   alertVars, escaped, log, schedVars>>

\* The web server answers a GET: the route's handler, or 404 for a path
\* without a route.
HttpGet(path) ==
    /\ http' = IF path \in DOMAIN RouteTable
               THEN [path |-> path, status |-> 200, body |-> HealthBody, sends |-> 0]
               ELSE [path |-> path, status |-> 404, body |-> "Not Found", sends |-> 0]
    /\ UNCHANGED <<clockVars, cacheVars, pc, authVars, queryVars, alertVars, escaped, log, schedVars>>

Next ==
    \/ \E w \in Threads : Tick(w)
    \/ \E w \in Threads, reply \in AuthReplies : AuthResponse(w, reply)
    \/ \E w \in Threads : CheckToken(w)
    \/ \E w \in Threads, us \in Micros : BuildRequest(w, us)
    \/ \E w \in Threads, r \in AnalyticsReplies : AnalyticsResponse(w, r)
    \/ \E w \in Threads, result \in {"ok"} \cup SendErrors : SendDone(w, result)
    \/ \E d \in Deltas : Advance(d)
    \/ \E path \in Paths : HttpGet(path)

Spec == Init /\ [][Next]_vars

\* Overlapping cycles: the job is run whenever it is due, also while an
\* earlier run is still in progress on another thread.
OverlapTick(w) == StartScan(w)

\* Analytics replies used with overlapping cycles.
OverlapReplies ==
    {r \in AnalyticsReplies :
        \/ r.status = 0
        \/ r.status = 500
        \/ (r.status = 200 /\ r.shape /\ ~r.errors /\ r.old_coins = << >>
              /\ r.inflow \in {<<20000>>, <<35000>>})}

OverlapNext ==
    \/ \E w \in Threads : OverlapTick(w)
    \/ \E w \in Threads, reply \in AuthReplies : AuthResponse(w, reply)
    \/ \E w \in Threads : CheckToken(w)
    \/ \E w \in Threads, us \in Micros : BuildRequest(w, us)
    \/ \E w \in Threads, r \in OverlapReplies : AnalyticsResponse(w, r)
    \/ \E w \in Threads, result \in {"ok"} \cup SendErrors : SendDone(w, result)
    \/ \E d \in Deltas : Advance(d)

OverlapSpec == Init /\ [][OverlapNext]_vars

\* The steps of a running scan on thread w.
ScanStep(w) ==
    \/ \E reply \in AuthReplies : AuthResponse(w, reply)
    \/ CheckToken(w)
    \/ \E us \in Micros : BuildRequest(w, us)
    \/ \E r \in AnalyticsReplies : AnalyticsResponse(w, r)
    \/ \E result \in {"ok"} \cup SendErrors : SendDone(w, result)

\* Every external call returns or raises, and a runnable thread runs.
FairSpec == Spec /\ \A w \in Threads : WF_vars(ScanStep(w))

\* ================================================================== claims
\* A scan starts on thread w in this step.
ScanStarts(w) == pc[w] = "Idle" /\ pc'[w] # "Idle"

\* C1: a call of _refresh_token with a cached non-empty token and
\* now < token_expiry issues no token exchange and leaves token and
\* token_expiry as they are; in every other cache state it issues exactly
\* one exchange, and no later step of the cycle issues another.
C1_RefreshOnlyWhenNeeded ==
    [][\A w \in Threads :
         /\ ScanStarts(w) =>
              IF token # None /\ token # "" /\ now < token_expiry
              THEN /\ authCalls'[w] = 0
                   /\ pc'[w] # "auth_wait"
                   /\ token' = token
                   /\ token_expiry' = token_expiry
              ELSE /\ authCalls'[w] = 1
                   /\ pc'[w] = "auth_wait"
         /\ ~ScanStarts(w) => authCalls'[w] <= authCalls[w]]_vars

\* C1 witness: after the clock moved, a scan found a valid cached token and
\* passed the refresh without an exchange.
C1_Witness ==
    \E w \in Threads :
        /\ pc[w] = "check_token"
        /\ authCalls[w] = 0
        /\ token = "abc"
        /\ now > 0
        /\ now < token_expiry

\* C2: an exchange that stored a usable token at time t sets token_expiry to
\* t + 23 hours; a scan starting before t + 23h issues no exchange, a scan
\* starting at or after t + 23h issues one.
C2_TokenValidFor23h ==
    /\ [](issuedAt # Unset => token_expiry = issuedAt + 23 * 60)
    /\ [][\A w \in Threads :
            (ScanStarts(w) /\ issuedAt # Unset) =>
                /\ now < issuedAt + 23 * 60 => authCalls'[w] = 0
                /\ now >= issuedAt + 23 * 60 => authCalls'[w] = 1]_vars

\* C2 witness: a second scan, 22h50 after the exchange, made no auth call.
C2_Witness ==
    \E w \in Threads :
        /\ issuedAt # Unset
        /\ now = issuedAt + 23 * 60 - 10
        /\ pc[w] = "check_token"
        /\ authCalls[w] = 0

\* The cycle on thread w reached evaluation with numeric aggregates.
Evaluated(w) ==
    /\ resp[w].status = 200
    /\ resp[w].json
    /\ ~resp[w].errors
    /\ resp[w].shape
    /\ avg_inflow[w] >= 0
    /\ old_vol[w] >= 0

\* C3: a cycle that reaches evaluation attempts exactly one alert send if
\* avg_inflow > 2.0 or old_vol > 100 and none otherwise; both comparisons
\* are strict.
C3_ThresholdLaw ==
    \A w \in Threads :
        Evaluated(w) =>
            sendAttempts[w] =
                IF avg_inflow[w] > 20000 \/ old_vol[w] > 1000000 THEN 1 ELSE 0

\* C3 witness: inflow exactly 2.0 with volume exactly 100 sent nothing.
C3_Witness ==
    \E w \in Threads :
        /\ Evaluated(w)
        /\ avg_inflow[w] = 20000
        /\ old_vol[w] = 1000000
        /\ sendAttempts[w] = 0
        /\ pc[w] = "Idle"

\* The token exchange of the cycle on thread w failed: no reply, a non-2xx
\* status, or a 2xx body without access_token.
AuthFailed(w) ==
    /\ authReply[w].status # Unset
    /\ \/ authReply[w].status = 0
       \/ authReply[w].status < 200
       \/ authReply[w].status > 299
       \/ ~authReply[w].has_token

\* C4: after a failed token exchange the cached token is None and the cycle
\* is skipped: no analytics request, no alert send, no exception leaves
\* scan(), and the cycle only checks the token and returns to Idle.
C4_AuthFailureSkipsCycle ==
    \A w \in Threads :
        AuthFailed(w) =>
            /\ token = None
            /\ pc[w] \in {"check_token", "Idle"}
            /\ analyticsCalls[w] = 0
            /\ sendAttempts[w] = 0
            /\ inflight[w] = NoMsg
            /\ ~escaped[w]

\* C4 witness: a 200 reply without access_token replaced a cached, expired
\* token; the cycle was skipped.
C4_Witness ==
    \E w \in Threads :
        /\ authReply[w].status = 200
        /\ authReply[w].json
        /\ ~authReply[w].has_token
        /\ token_expiry > 23 * 60
        /\ pc[w] = "Idle"
        /\ log[w] = "Skipping scan due to missing token."

\* The analytics reply of the cycle on thread w is a non-2xx status or
\* carries a GraphQL errors list.
QueryFailed(w) ==
    /\ resp[w].status # Unset
    /\ resp[w].status # 0
    /\ \/ resp[w].status < 200
       \/ resp[w].status > 299
       \/ (resp[w].json /\ resp[w].errors)

\* C5: a cycle issues at most one analytics request; on a non-2xx status or
\* a GraphQL errors list it is back in Idle with no aggregate parsed, no
\* alert attempted and no exception raised.
C5_QueryFailureAborts ==
    \A w \in Threads :
        /\ analyticsCalls[w] <= 1
        /\ QueryFailed(w) =>
              /\ pc[w] = "Idle"
              /\ avg_inflow[w] = Unset
              /\ old_vol[w] = Unset
              /\ sendAttempts[w] = 0
              /\ inflight[w] = NoMsg
              /\ ~escaped[w]
              /\ log[w] \in {"Bitquery API Error", "GraphQL Error"}

\* C5 witness: HTTP 500 with an over-threshold body ended the cycle.
C5_Witness ==
    \E w \in Threads :
        /\ resp[w].status = 500
        /\ resp[w].inflow = <<35000>>
        /\ analyticsCalls[w] = 1
        /\ pc[w] = "Idle"

\* The analytics reply on thread w is a 200 with data.bitcoin and no errors.
Successful(w) ==
    /\ resp[w].status = 200
    /\ resp[w].json
    /\ ~resp[w].errors
    /\ resp[w].shape

\* The first element of array a is a number, or a is empty.
NumericOrEmpty(a) == a = << >> \/ a[1] >= 0

\* C6: in a successful reply an empty inflow array gives avg_inflow = 0 and
\* an empty old_coins array gives old_vol = 0, each independently, and the
\* emptiness raises nothing; the threshold decision uses those values, so
\* inflow [3.5] with old_coins [] alerts and both empty does not.
C6_EmptyArraysDefaultToZero ==
    \A w \in Threads :
        Successful(w) =>
            /\ resp[w].inflow = << >> => avg_inflow[w] = 0
            /\ resp[w].old_coins = << >> => old_vol[w] = 0
            /\ (NumericOrEmpty(resp[w].inflow) /\ NumericOrEmpty(resp[w].old_coins)) =>
                  /\ log[w] # "Scan Runtime Error"
                  /\ ~escaped[w]
            /\ (resp[w].inflow = <<35000>> /\ resp[w].old_coins = << >>) =>
                  sendAttempts[w] = 1
            /\ (resp[w].inflow = << >> /\ resp[w].old_coins = << >>) =>
                  sendAttempts[w] = 0
            /\ (resp[w].inflow = << >> /\ resp[w].old_coins = <<1000001>>) =>
                  sendAttempts[w] = 1

\* C6 witness: inflow [3.5] with old_coins [] parsed to 3.5 and 0.0 and an
\* alert was dispatched.
C6_Witness ==
    \E w \in Threads :
        /\ Successful(w)
        /\ resp[w].inflow = <<35000>>
        /\ resp[w].old_coins = << >>
        /\ avg_inflow[w] = 35000
        /\ old_vol[w] = 0
        /\ sendAttempts[w] = 1

\* C7: no outcome of a cycle lets an exception leave scan(), and, the
\* external calls returning, every started cycle ends back in Idle, where
\* the scheduler can fire the next one.
C7_ScanAlwaysReturns ==
    /\ [](\A w \in Threads : ~escaped[w])
    /\ \A w \in Threads : (pc[w] # "Idle") ~> (pc[w] = "Idle")
    /\ []<>(\A w \in Threads : pc[w] = "Idle")

\* C7 witness: a 200 reply of unexpected shape raised inside scan(), was
\* logged there, and the cycle ended.
C7_Witness ==
    \E w \in Threads :
        /\ resp[w].status = 200
        /\ resp[w].json
        /\ ~resp[w].errors
        /\ ~resp[w].shape
        /\ log[w] = "Scan Runtime Error"
        /\ pc[w] = "Idle"
        /\ ~escaped[w]

\* The send of the cycle on thread w ends in failure in this step.
SendFails(w) ==
    pc[w] = "alerting" /\ pc'[w] # "alerting" /\ sendResult'[w] = "failed"

\* C8: a failed send is logged by the notifier itself and goes no further:
\* the cycle ends in Idle without an exception, token and token_expiry are
\* untouched, and the cycle has made one send attempt, never a second.
C8_NotifierFailureSwallowed ==
    /\ [](\A w \in Threads : sendAttempts[w] <= 1)
    /\ [][\A w \in Threads :
            SendFails(w) =>
                /\ log'[w] = "Telegram Error"
                /\ pc'[w] = "Idle"
                /\ ~escaped'[w]
                /\ token' = token
                /\ token_expiry' = token_expiry
                /\ sendAttempts'[w] = 1
                /\ inflight'[w] = NoMsg]_vars

\* C8 witness: a send failed and its cycle is over.
C8_Witness ==
    \E w \in Threads :
        /\ sendResult[w] = "failed"
        /\ log[w] = "Telegram Error"
        /\ sendAttempts[w] = 1
        /\ pc[w] = "Idle"

\* C9: a send is in flight only while its cycle is inside the alert step;
\* a cycle that attempted a send and is back in Idle has the send's outcome.
C9_SendAwaited ==
    \A w \in Threads :
        /\ inflight[w] # NoMsg => pc[w] = "alerting"
        /\ (pc[w] = "Idle" /\ sendAttempts[w] > 0) =>
              /\ inflight[w] = NoMsg
              /\ sendResult[w] \in {"sent", "failed"}

\* C9 witness: a cycle that sent an alert has returned, the send finished.
C9_Witness ==
    \E w \in Threads :
        /\ pc[w] = "Idle"
        /\ sendAttempts[w] = 1
        /\ sendResult[w] = "sent"
        /\ inflight[w] = NoMsg

ExchangeReturns(w) == pc[w] = "auth_wait" /\ pc'[w] # "auth_wait"

\* C11: a refresh either replaces both fields together, the expiry being
\* now + 23 hours, or clears the token to None and leaves token_expiry as
\* it was.
C11_NeverPartiallyUpdated ==
    [][\A w \in Threads :
         ExchangeReturns(w) =>
            \/ (token' # None /\ token_expiry' = now + 23 * 60)
            \/ (token' = None /\ token_expiry' = token_expiry)]_vars

\* C16: the job first runs at process start (time 0), and the run after a
\* run is due one interval later.
C16_RunsAtStartup ==
    /\ [](firstRun # Unset => firstRun = 0)
    /\ [][\A w \in Threads : ScanStarts(w) => nextRun' = now + 10]_vars

\* The alert decision read off the reply of the cycle on thread w alone.
OverThreshold(w) ==
    \/ (resp[w].inflow # << >> /\ resp[w].inflow[1] > 20000)
    \/ (resp[w].old_coins # << >> /\ resp[w].old_coins[1] > 1000000)

\* C12: token and token_expiry change only in the step in which a cycle's
\* token exchange returns; no other step of a cycle, the clock or a web
\* request changes them.  A cycle's alert decision is a function of its own
\* reply, whatever earlier cycles did.
C12_TokenMutatedOnlyByAuth ==
    /\ [][(token' # token \/ token_expiry' # token_expiry) =>
             \E w \in Threads : ExchangeReturns(w)]_vars
    /\ [](\A w \in Threads :
             Evaluated(w) => (sendAttempts[w] = 1 <=> OverThreshold(w)))

\* C12 witness: two consecutive cycles each attempted an alert send, the
\* second without an exchange.
C12_Witness ==
    /\ prevAlert
    /\ \E w \in Threads :
          /\ Evaluated(w)
          /\ authCalls[w] = 0
          /\ sendAttempts[w] = 1

\* The steps a cycle may take, as pairs of positions: Idle, authentication
\* (auth_wait, check_token), querying (build_request, query_wait, in which
\* the reply is evaluated), alerting.
CycleOrder ==
    {<<"Idle", "auth_wait">>, <<"Idle", "check_token">>,
     <<"auth_wait", "check_token">>,
     <<"check_token", "build_request">>, <<"check_token", "Idle">>,
     <<"build_request", "query_wait">>,
     <<"query_wait", "alerting">>, <<"query_wait", "Idle">>,
     <<"alerting", "Idle">>}

\* C13: a cycle moves Idle -> authentication -> querying -> evaluation ->
\* (alerting | Idle) in that order; with serial cycles an analytics request
\* carries the non-empty token the authentication step of its cycle ended
\* with, and an alert send follows a 200 reply without errors of its cycle.
C13_CycleOrder ==
    /\ [][\A w \in Threads : pc'[w] # pc[w] => <<pc[w], pc'[w]>> \in CycleOrder]_vars
    /\ [](\A w \in Threads :
            analyticsCalls[w] > 0 =>
                /\ bearer[w] # None
                /\ bearer[w] # ""
                /\ bearer[w] = token
                /\ authCalls[w] = 1 =>
                      /\ authReply[w].status = 200
                      /\ authReply[w].has_token
                      /\ authReply[w].access_token = bearer[w])
    /\ [](\A w \in Threads :
            sendAttempts[w] > 0 =>
                /\ analyticsCalls[w] = 1
                /\ resp[w].status = 200
                /\ ~resp[w].errors)

\* C13 witness: a cycle that exchanged a token, queried with it and got a
\* 200 reply is sending its alert.
C13_Witness ==
    \E w \in Threads :
        /\ pc[w] = "alerting"
        /\ authCalls[w] = 1
        /\ bearer[w] = "abc"
        /\ resp[w].status = 200

\* The analytics request of the cycle on thread w is posted in this step.
RequestPosted(w) == pc[w] = "build_request" /\ pc'[w] = "query_wait"

\* C14: nothing in scan or _refresh_token coordinates two running cycles.
\* A cycle that starts on a missing or expired token while another cycle's
\* exchange is still in flight issues an exchange of its own; and a cycle
\* that has passed its token test posts its request with whatever the
\* shared token holds at that moment, without testing it again.
C14_TokenUnguarded ==
    /\ [][\A w, v \in Threads :
            (/\ ScanStarts(w)
             /\ v # w
             /\ pc[v] = "auth_wait"
             /\ ~(token # None /\ token # "" /\ now < token_expiry)) =>
                /\ pc'[w] = "auth_wait"
                /\ pc'[v] = "auth_wait"
                /\ authCalls'[w] = 1
                /\ authCalls'[v] = 1]_vars
    /\ [][\A w \in Threads :
            RequestPosted(w) =>
                /\ bearer'[w] = token
                /\ analyticsCalls'[w] = 1]_vars

\* C14 witness: both cycles issued an exchange for the same missing token;
\* one stored a token and passed its test, then the other's failed exchange
\* set the token to None, and the first posted its request with None.
C14_Witness ==
    \E w, v \in Threads :
        /\ w # v
        /\ authCalls[w] = 1
        /\ authCalls[v] = 1
        /\ authReply[w].access_token = "abc"
        /\ authReply[v].status = 500
        /\ pc[w] = "query_wait"
        /\ analyticsCalls[w] = 1
        /\ bearer[w] = None
        /\ token = None

\* C15: a cycle whose exchange failed has issued that one exchange and no
\* other, and leaves the token None; every scan that starts on a None
\* token issues a new exchange, whatever token_expiry holds.
C15_FailedExchangeRetriedNextTick ==
    /\ [](\A w \in Threads :
            /\ authCalls[w] <= 1
            /\ AuthFailed(w) =>
                  /\ authCalls[w] = 1
                  /\ token = None
                  /\ pc[w] \in {"check_token", "Idle"})
    /\ [][\A w \in Threads :
            (ScanStarts(w) /\ token = None) =>
                /\ authCalls'[w] = 1
                /\ pc'[w] = "auth_wait"]_vars

\* C15 witness: after an exchange that stored no token but moved the expiry
\* into the future, the next scan is waiting for a new exchange.
C15_Witness ==
    \E w \in Threads :
        /\ pc[w] = "auth_wait"
        /\ authCalls[w] = 1
        /\ token = None
        /\ token_expiry > now
        /\ firstRun < now

\* C17: the query posted at time now carries, in both places, the stamp of
\* now - 10 minutes cut to the second, between fixed pieces of text; it is
\* built from the clock of that step alone, and building it changes
\* neither the token nor its expiry.
C17_QueryWindowFresh ==
    [][\A w \in Threads :
         RequestPosted(w) =>
            /\ Len(query'[w]) = 5
            /\ query'[w][2] = <<(now - 10) \div 1440, ((now - 10) % 1440) \div 60,
                                (now - 10) % 60, 0>>
            /\ query'[w][4] = query'[w][2]
            /\ query'[w][1] = "{ bitcoin { inflow: transactions(... date: {after: "
            /\ query'[w][3] = "} ...) { average count } old_coins: inputs(age: {gt: 1095}, date: {after: "
            /\ query'[w][5] = "}) { volume } } }"
            /\ token' = token
            /\ token_expiry' = token_expiry]_vars

\* C17 witness: a later cycle, 23h10 after process start, posted a query
\* whose window starts at 23:00:00 of day 0.
C17_Witness ==
    \E w \in Threads :
        /\ pc[w] = "query_wait"
        /\ now = 23 * 60 + 10
        /\ firstRun < now
        /\ query[w][2] = <<0, 23, 0, 0>>
        /\ query[w][4] = <<0, 23, 0, 0>>

\* Message msg has a line tagged tag.
HasLine(msg, tag) == \E k \in 1..Len(msg) : msg[k] = tag

\* C18: every alert message starts with the header and the inflow line; it
\* has the high-dump-risk marker iff inflow > 5.0, the whale marker iff
\* old volume > 500, the plain old-coins line iff 0 < old volume <= 500,
\* and no old-coin line at all when the old volume is 0.
C18_SeverityMarkers ==
    \A w \in Threads :
        inflight[w] # NoMsg =>
            /\ inflight[w][1] = "RADAR DETECTED MOVEMENT"
            /\ inflight[w][2] = "Exchange Inflow (Avg)"
            /\ HasLine(inflight[w], "HIGH DUMP RISK") <=> avg_inflow[w] > 50000
            /\ HasLine(inflight[w], "WHALE ALERT") <=> old_vol[w] > 5000000
            /\ HasLine(inflight[w], "Old Coins") <=>
                  (old_vol[w] > 0 /\ old_vol[w] <= 5000000)
            /\ old_vol[w] = 0 =>
                  /\ ~HasLine(inflight[w], "WHALE ALERT")
                  /\ ~HasLine(inflight[w], "Old Coins")

\* C18 witness: inflow exactly 5.0 with old volume exactly 500 is being
\* sent with the plain old-coins line and no marker.
C18_Witness ==
    \E w \in Threads :
        /\ avg_inflow[w] = 50000
        /\ old_vol[w] = 5000000
        /\ inflight[w] = <<"RADAR DETECTED MOVEMENT", "Exchange Inflow (Avg)", "Old Coins">>

====
